---- MODULE Spec2Model ----
(***************************************************************************)
(* The encrypted keystore of src/lib/utils/key.js (GenKey, EncryptKey,     *)
(* DecryptKey, DecryptKeyV3) as a state machine.                           *)
(*                                                                         *)
(* Byte buffers are terms: a tuple whose first element names the primitive *)
(* that produced the bytes.  The external primitives (crypto.randomBytes,  *)
(* scrypt, aes-128-ctr, keccak) are the usual idealisations: two terms are *)
(* the same bytes exactly when they are the same term.                     *)
(*   <<"empty">>                          the zero-length buffer           *)
(*   <<"rnd", n, cls, id>>                the id-th draw of the entropy    *)
(*                                        source, n bytes; cls says        *)
(*                                        whether the bytes, read as a     *)
(*                                        number, are a valid secp256k1    *)
(*                                        private key                      *)
(*   <<"scrypt", pw, salt, N, r, p, a, b>> bytes [a,b) of the scrypt output *)
(*   <<"ctr", key, iv, data>>             data under the aes-128-ctr       *)
(*                                        keystream of (key, iv)           *)
(*   <<"sha3", data>>                     keccak-256 of data               *)
(*   <<"cat", a, b>>                      a followed by b                  *)
(*   <<"flip", b>>                        b with one bit flipped           *)
(*   <<"pub", prv>>, <<"addr", pub>>      public key, address              *)
(* A hex string is <<"hex", bytes, spelling>>: Buffer.toString('hex')      *)
(* writes lower-case digits, new Buffer(s, 'hex') reads either case.       *)
(* A JSON value that may be missing is <<"undefined">>, <<"num", n>> or     *)
(* <<"str", s>>.                                                           *)
(***************************************************************************)
EXTENDS Integers, Sequences, FiniteSets, TLC

VARIABLES pc, drawn, gen, keys, issued, dec, out, tx

vars == <<pc, drawn, gen, keys, issued, dec, out, tx>>

\* The variables of the keystore; tx is the state of a call of
\* SolidityFunction.sendTransaction or getResult.
kvars == <<pc, drawn, gen, keys, issued, dec, out>>

\* src/lib/utils/key.js:5-8
ScryptN == 262144
ScryptP == 1
ScryptR == 8
ScryptDKLen == 32

\* Bounds of the model.
MaxDraws == 5

\* The number of redraws a capped GenKey would allow.
RedrawCap == 2

Passwords == {"correct horse", "wrong password"}

Undefined == <<"undefined">>
Empty == <<"empty">>

Min(a, b) == IF a < b THEN a ELSE b

----------------------------------------------------------------------------
(* Buffers and the external primitives.                                    *)

RECURSIVE ByteLength(_)
ByteLength(b) ==
    CASE b[1] = "empty" -> 0
      [] b[1] = "rnd" -> b[2]
      [] b[1] = "scrypt" -> b[8] - b[7]
      [] b[1] = "ctr" -> ByteLength(b[4])
      [] b[1] = "sha3" -> 32
      [] b[1] = "cat" -> ByteLength(b[2]) + ByteLength(b[3])
      [] b[1] = "flip" -> ByteLength(b[2])
      [] b[1] = "pub" -> 64
      [] b[1] = "addr" -> 20

\* crypto.randomBytes(n): the entropy source never yields the same bytes twice;
\* id is the number of the draw.
randomBytes(n, cls, id) == <<"rnd", n, cls, id>>

RangeClasses == {"inrange", "outofrange"}

\* ethutil.isValidPrivate: nonzero and below the group order.
isValidPrivate(privatekey) == privatekey[1] = "rnd" /\ privatekey[3] = "inrange"

privateToPublic(privatekey) == <<"pub", privatekey>>

pubToAddress(publicKey) == <<"addr", publicKey>>

\* scrypt.hashSync(passwd, {N, r, p}, dklen, salt): the first dklen bytes of the
\* scrypt output stream of (passwd, salt, N, r, p).
ScryptHashSync(passwd, N, r, p, dklen, salt) ==
    IF dklen <= 0 THEN Empty ELSE <<"scrypt", passwd, salt, N, r, p, 0, dklen>>

\* Buffer.prototype.slice(start, end) on the derived key: both ends are clamped
\* to the buffer's length.
Slice(b, start, end) ==
    LET len == ByteLength(b)
        s == Min(start, len)
        e == Min(end, len)
    IN  IF s >= e THEN Empty
        ELSE <<"scrypt", b[2], b[3], b[4], b[5], b[6], b[7] + s, b[7] + e>>

\* crypto.createCipheriv('aes-128-ctr', key, iv) followed by update and final:
\* the data combined with the keystream of (key, iv). The same keystream taken
\* twice gives the data back.
AesCtr(key, iv, data) ==
    IF data[1] = "ctr" /\ data[2] = key /\ data[3] = iv
    THEN data[4]
    ELSE <<"ctr", key, iv, data>>

\* Buffer.concat([a, b])
Concat(a, b) ==
    IF a = Empty THEN b ELSE IF b = Empty THEN a ELSE <<"cat", a, b>>

\* ethutil.sha3
Sha3(b) == <<"sha3", b>>

\* Buffer.prototype.toString('hex')
ToHex(b) == <<"hex", b, "lower">>

\* new Buffer(s, 'hex')
FromHex(s) == s[2]

\* The same hex digits written in upper case.
UpperCase(s) == <<"hex", s[2], "upper">>

\* JSON.stringify / JSON.parse on a keystore object
JSONstringify(obj) == <<"json", obj>>

JSONparse(text) == text[2]

\* JavaScript truthiness of a JSON value.
Truthy(v) ==
    CASE v[1] = "undefined" -> FALSE
      [] v[1] = "num" -> v[2] # 0
      [] v[1] = "str" -> v[2] # ""

\* Number("...") for the strings of the model; -1 stands for NaN.
ToNumber(s) ==
    CASE s = "3" -> 3
      [] s = "03" -> 3
      [] s = "2" -> 2
      [] s = "" -> 0
      [] OTHER -> -1

\* v == s for a string literal s (abstract equality): a number is compared
\* with Number(s), a string with s itself.
LooseEqualsString(v, s) ==
    CASE v[1] = "undefined" -> FALSE
      [] v[1] = "num" -> v[2] = ToNumber(s)
      [] v[1] = "str" -> v[2] = s

----------------------------------------------------------------------------
(* GenKey, src/lib/utils/key.js:14-26                                      *)

NoGen == [cand |-> Undefined, redraws |-> 0]

\* The frame of DecryptKey / DecryptKeyV3: the arguments, the locals and the
\* primitives invoked so far. src and field record where the argument came
\* from: the issued record it was made of and the field changed in it.
NoDec ==
    [called |-> FALSE, json |-> Undefined, passwd |-> "", src |-> 0, field |-> "none",
     keyJson |-> Undefined, dpasswd |-> Undefined, calculatedMAC |-> Undefined,
     plaintext |-> Undefined, trace |-> <<>>]

\* A loop that never draws again.
LoopAgainNever(privatekey) == FALSE

\* line 18: the condition of the do-while
LoopAgain(privatekey) == ~isValidPrivate(privatekey)

KeyPairOf(privatekey) ==
    LET publicKey == privateToPublic(privatekey)
        address == pubToAddress(publicKey)
    IN  [prvkey |-> privatekey, pubkey |-> publicKey, addr |-> address]

GenKeyCall ==
    /\ pc = "idle"
    /\ drawn < MaxDraws
    /\ pc' = "gen_draw"
    /\ gen' = NoGen
    /\ out' = <<"none">>
    /\ dec' = NoDec
    /\ UNCHANGED <<drawn, keys, issued, tx>>

\* line 17: privatekey = crypto.randomBytes(32)
GenKeyDraw ==
    /\ pc = "gen_draw"
    /\ drawn < MaxDraws
    /\ \E cls \in RangeClasses :
          gen' = [gen EXCEPT !.cand = randomBytes(32, cls, drawn + 1)]
    /\ drawn' = drawn + 1
    /\ pc' = "gen_test"
    /\ UNCHANGED <<keys, issued, dec, out, tx>>

\* line 18: while (!ethutil.isValidPrivate(privatekey)) -- draw again
GenKeyRetry ==
    /\ pc = "gen_test"
    /\ LoopAgain(gen.cand)
    /\ gen' = [gen EXCEPT !.redraws = @ + 1]
    /\ pc' = "gen_draw"
    /\ UNCHANGED <<drawn, keys, issued, dec, out, tx>>

\* lines 18-25: the loop ends and the key pair is returned
GenKeyReturn ==
    /\ pc = "gen_test"
    /\ ~LoopAgain(gen.cand)
    /\ keys' = keys \cup {KeyPairOf(gen.cand)}
    /\ out' = <<"keypair", KeyPairOf(gen.cand)>>
    /\ gen' = NoGen
    /\ pc' = "idle"
    /\ UNCHANGED <<drawn, issued, dec, tx>>

----------------------------------------------------------------------------
(* EncryptKey, src/lib/utils/key.js:28-61                                  *)

\* The two halves of the derived key taken the other way round.
EncryptKeyWithHalvesSwapped(key, passwd, salt, iv) ==
    LET dpasswd == ScryptHashSync(passwd, ScryptN, ScryptR, ScryptP, ScryptDKLen, salt)
        epasswd == Slice(dpasswd, 16, 32)
        fpasswd == Slice(dpasswd, 0, 16)
        ciphertext == ToHex(AesCtr(epasswd, iv, key.prvkey))
        mac == Sha3(Concat(fpasswd, FromHex(ciphertext)))
    IN  [address |-> ToHex(key.addr),
         crypto |-> [cipher |-> <<"str", "aes-128-ctr">>,
                     ciphertext |-> ciphertext,
                     cipherparams |-> [iv |-> ToHex(iv)],
                     kdf |-> <<"str", "scrypt">>,
                     kdfparams |-> [dklen |-> ScryptDKLen,
                                    n |-> ScryptN,
                                    p |-> ScryptP,
                                    r |-> ScryptR,
                                    salt |-> ToHex(salt)],
                     mac |-> ToHex(mac)],
         version |-> <<"num", 3>>]

EncryptKeyWith(key, passwd, salt, iv) ==
    LET dpasswd == ScryptHashSync(passwd, ScryptN, ScryptR, ScryptP, ScryptDKLen, salt)
        epasswd == Slice(dpasswd, 0, 16)
        fpasswd == Slice(dpasswd, 16, 32)
        ciphertext == ToHex(AesCtr(epasswd, iv, key.prvkey))
        mac == Sha3(Concat(fpasswd, FromHex(ciphertext)))
    IN  [address |-> ToHex(key.addr),
         crypto |-> [cipher |-> <<"str", "aes-128-ctr">>,
                     ciphertext |-> ciphertext,
                     cipherparams |-> [iv |-> ToHex(iv)],
                     kdf |-> <<"str", "scrypt">>,
                     kdfparams |-> [dklen |-> ScryptDKLen,
                                    n |-> ScryptN,
                                    p |-> ScryptP,
                                    r |-> ScryptR,
                                    salt |-> ToHex(salt)],
                     mac |-> ToHex(mac)],
         version |-> <<"num", 3>>]

\* A salt of the iv's size.
DrawSaltShort(cls, id) == randomBytes(16, cls, id)

\* line 29: the salt is the first draw of the call
DrawSalt(cls, id) == randomBytes(32, cls, id)

\* An iv drawn once and kept for every call.
DrawIvOnce(id) == randomBytes(16, "any", 0)

\* line 34: the iv is the second draw of the call
DrawIv(id) == randomBytes(16, "any", id)

EncryptKey ==
    /\ pc = "idle"
    /\ drawn + 2 <= MaxDraws
    /\ \E key \in keys, passwd \in Passwords, cls \in RangeClasses :
          LET salt == DrawSalt(cls, drawn + 1)
              iv == DrawIv(drawn + 2)
              rec == EncryptKeyWith(key, passwd, salt, iv)
          IN  /\ issued' = Append(issued, [rec |-> rec, key |-> key, passwd |-> passwd])
              /\ out' = <<"record", rec>>
    /\ drawn' = drawn + 2
    /\ dec' = NoDec
    /\ UNCHANGED <<pc, gen, keys, tx>>

----------------------------------------------------------------------------
(* The records DecryptKey is given: an issued record as it is, or with one *)
(* field changed.                                                          *)

FlippedHex(s) == ToHex(<<"flip", FromHex(s)>>)

VersionValues == {Undefined, <<"str", "3">>, <<"num", 2>>, <<"num", 0>>, <<"str", "03">>}

CipherValues == {Undefined, <<"str", "aes-128-cbc">>, <<"str", "AES-128-CTR">>}

KdfValues == {Undefined, <<"str", "pbkdf2">>}

DklenValues == {16, 64}

\* A record made without the passphrase: the derived key cut to 16 bytes and
\* the mac taken over the ciphertext alone.
Forged(rec) ==
    [rec EXCEPT !.crypto.kdfparams.dklen = 16,
                !.crypto.mac = ToHex(Sha3(FromHex(rec.crypto.ciphertext)))]

Variants(rec) ==
    {[field |-> "none", rec |-> rec]}
    \cup {[field |-> "version", rec |-> [rec EXCEPT !.version = v]] : v \in VersionValues}
    \cup {[field |-> "cipher", rec |-> [rec EXCEPT !.crypto.cipher = v]] : v \in CipherValues}
    \cup {[field |-> "kdf", rec |-> [rec EXCEPT !.crypto.kdf = v]] : v \in KdfValues}
    \cup {[field |-> "ciphertext", rec |-> [rec EXCEPT !.crypto.ciphertext = v]] :
            v \in {UpperCase(rec.crypto.ciphertext), FlippedHex(rec.crypto.ciphertext)}}
    \cup {[field |-> "salt", rec |-> [rec EXCEPT !.crypto.kdfparams.salt = v]] :
            v \in {UpperCase(rec.crypto.kdfparams.salt), FlippedHex(rec.crypto.kdfparams.salt)}}
    \cup {[field |-> "iv", rec |-> [rec EXCEPT !.crypto.cipherparams.iv = v]] :
            v \in {UpperCase(rec.crypto.cipherparams.iv), FlippedHex(rec.crypto.cipherparams.iv)}}
    \cup {[field |-> "mac", rec |-> [rec EXCEPT !.crypto.mac = v]] :
            v \in {UpperCase(rec.crypto.mac), FlippedHex(rec.crypto.mac)}}
    \cup {[field |-> "dklen", rec |-> [rec EXCEPT !.crypto.kdfparams.dklen = v]] :
            v \in DklenValues}
    \cup {[field |-> "forged", rec |-> Forged(rec)]}

----------------------------------------------------------------------------
(* DecryptKey, src/lib/utils/key.js:63-74, and DecryptKeyV3, 76-106        *)

AuthError == <<"throw", "could not decrypt key with given passphrase">>
VersionError == <<"throw", "version must be 3">>
KdfError == <<"throw", "only support scrypt">>
CipherError(cipher) == <<"throw", "Cipher not support: ", cipher>>

\* Any truthy version taken for version 3.
VersionAcceptedAnyTruthy(version) == Truthy(version)

\* line 68: version && version == "3"
VersionAccepted(version) == Truthy(version) /\ LooseEqualsString(version, "3")

\* line 78: cipher != "aes-128-ctr"
CipherRejected(cipher) == ~LooseEqualsString(cipher, "aes-128-ctr")

\* The kdf name never looked at.
KdfNeverRejected(kdf) == FALSE

\* line 82: cryptoJSON.kdf != 'scrypt'
KdfRejected(kdf) == ~LooseEqualsString(kdf, "scrypt")

\* line 94: sha3(dpasswd.slice(16,32) ++ ciphertext) in hex
CalculatedMAC(dpasswd, ciphertext) ==
    ToHex(Sha3(Concat(Slice(dpasswd, 16, 32), ciphertext)))

\* The comparison left out.
MacNeverDiffers(calculatedMAC, mac) == FALSE

\* The two macs compared as bytes instead of as strings.
MacDiffersAsBytes(calculatedMAC, mac) == FromHex(calculatedMAC) # FromHex(mac)

\* line 96: calculatedMAC != mac
MacDiffers(calculatedMAC, mac) == calculatedMAC # mac

\* An error that tells the mac that was recomputed.
MacMismatchErrorTellingMac(calculatedMAC, mac) ==
    <<"throw", "could not decrypt key with given passphrase", calculatedMAC>>

\* line 97: the error thrown when the macs differ
MacMismatchError(calculatedMAC, mac) == AuthError

\* The MAC half of the derived key handed to the cipher.
DecipherKeyMacHalf(dpasswd) == Slice(dpasswd, 16, 32)

\* line 100: the key handed to createCipheriv
DecipherKey(dpasswd) == Slice(dpasswd, 0, 16)

Throw(err) ==
    /\ out' = err
    /\ pc' = "idle"

DecryptKeyCall ==
    /\ pc = "idle"
    /\ \E i \in DOMAIN issued, passwd \in Passwords :
          \E v \in Variants(issued[i].rec) :
             dec' = [NoDec EXCEPT !.called = TRUE,
                                  !.json = JSONstringify(v.rec),
                                  !.passwd = passwd,
                                  !.src = i,
                                  !.field = v.field]
    /\ out' = <<"none">>
    /\ pc' = "dk_version"
    /\ UNCHANGED <<drawn, gen, keys, issued, tx>>

\* lines 64-72
DecryptKeyVersion ==
    /\ pc = "dk_version"
    /\ LET keyJson == JSONparse(dec.json) IN
          /\ dec' = [dec EXCEPT !.keyJson = keyJson,
                                !.trace = Append(@, "JSON.parse")]
          /\ IF VersionAccepted(keyJson.version)
             THEN pc' = "v3_cipher" /\ out' = out
             ELSE Throw(VersionError)
    /\ UNCHANGED <<drawn, gen, keys, issued, tx>>

\* lines 77-80
V3CheckCipher ==
    /\ pc = "v3_cipher"
    /\ IF CipherRejected(dec.keyJson.crypto.cipher)
       THEN Throw(CipherError(dec.keyJson.crypto.cipher))
       ELSE pc' = "v3_kdf" /\ out' = out
    /\ UNCHANGED <<drawn, gen, keys, issued, dec, tx>>

\* lines 82-84
V3CheckKdf ==
    /\ pc = "v3_kdf"
    /\ IF KdfRejected(dec.keyJson.crypto.kdf)
       THEN Throw(KdfError)
       ELSE pc' = "v3_derive" /\ out' = out
    /\ UNCHANGED <<drawn, gen, keys, issued, dec, tx>>

\* lines 85-90
V3Derive ==
    /\ pc = "v3_derive"
    /\ LET kdfparams == dec.keyJson.crypto.kdfparams
           salt == FromHex(kdfparams.salt)
       IN  dec' = [dec EXCEPT
                     !.dpasswd = ScryptHashSync(dec.passwd, kdfparams.n, kdfparams.r,
                                                kdfparams.p, kdfparams.dklen, salt),
                     !.trace = Append(@, "scrypt")]
    /\ pc' = "v3_mac"
    /\ UNCHANGED <<drawn, gen, keys, issued, out, tx>>

\* lines 91-94
V3Mac ==
    /\ pc = "v3_mac"
    /\ LET ciphertext == FromHex(dec.keyJson.crypto.ciphertext)
       IN  dec' = [dec EXCEPT !.calculatedMAC = CalculatedMAC(dec.dpasswd, ciphertext),
                              !.trace = Append(@, "sha3")]
    /\ pc' = "v3_compare"
    /\ UNCHANGED <<drawn, gen, keys, issued, out, tx>>

\* The comparison made and its outcome ignored.
V3CompareNoThrow ==
    /\ pc = "v3_compare"
    /\ dec' = [dec EXCEPT !.trace = Append(@, "compare")]
    /\ pc' = "v3_decipher"
    /\ UNCHANGED <<drawn, gen, keys, issued, out, tx>>

\* lines 96-98
V3Compare ==
    /\ pc = "v3_compare"
    /\ dec' = [dec EXCEPT !.trace = Append(@, "compare")]
    /\ IF MacDiffers(dec.calculatedMAC, dec.keyJson.crypto.mac)
       THEN Throw(MacMismatchError(dec.calculatedMAC, dec.keyJson.crypto.mac))
       ELSE pc' = "v3_decipher" /\ out' = out
    /\ UNCHANGED <<drawn, gen, keys, issued, tx>>

\* lines 100-103; createCipheriv refuses a key or an iv that is not 16 bytes
V3Decipher ==
    /\ pc = "v3_decipher"
    /\ LET iv == FromHex(dec.keyJson.crypto.cipherparams.iv)
           ciphertext == FromHex(dec.keyJson.crypto.ciphertext)
           key == DecipherKey(dec.dpasswd)
       IN  IF ByteLength(key) # 16
           THEN /\ Throw(<<"throw", "Invalid key length">>)
                /\ dec' = dec
           ELSE IF ByteLength(iv) # 16
           THEN /\ Throw(<<"throw", "Invalid IV length">>)
                /\ dec' = dec
           ELSE /\ dec' = [dec EXCEPT !.plaintext = ToHex(AesCtr(key, iv, ciphertext)),
                                      !.trace = Append(@, "aes")]
                /\ pc' = "v3_return"
                /\ out' = out
    /\ UNCHANGED <<drawn, gen, keys, issued, tx>>

\* lines 105 and 73
V3Return ==
    /\ pc = "v3_return"
    /\ out' = <<"return", dec.plaintext>>
    /\ pc' = "idle"
    /\ UNCHANGED <<drawn, gen, keys, issued, dec, tx>>

----------------------------------------------------------------------------
(* SolidityFunction.sendTransaction and getResult, lines 273-373 of        *)
(* src/lib/utils/key.js. Time is in milliseconds, counted from the call;   *)
(* the clock is read only in "now - startTime < timeout" and is therefore  *)
(* followed up to startTime + timeout and no further.                      *)

\* lines 277-278 and 322-323
DefaultTimeout == 8000
DefaultInterval == 50

\* The amounts of time that pass between two events.
TickSteps == {50}

\* The query options a caller passes: none, or an object whose timeout and
\* interval may be missing or 0.
QueryOptions ==
    {[given |-> FALSE, timeout |-> 0, interval |-> 0],
     [given |-> TRUE, timeout |-> 100, interval |-> 100],
     [given |-> TRUE, timeout |-> 120, interval |-> 0]}

\* lines 280-285 and 328-332: op.timeout ? op.timeout : 8000, and the same for
\* the interval
EffectiveOptions(op) ==
    [given |-> TRUE,
     timeout |-> IF op.given /\ op.timeout # 0 THEN op.timeout ELSE DefaultTimeout,
     interval |-> IF op.given /\ op.interval # 0 THEN op.interval ELSE DefaultInterval]

Hashes == {"0xabc"}

\* The ret of a receipt, when it has one.
RetValues == {"0x2a", "2a"}

\* String.prototype.replace('0x', '')
Strip0x(ret) == IF ret = "0x2a" THEN "2a" ELSE ret

\* line 347-348: coder.decodeParams(this._outputTypes, ret without '0x')
DecodeRet(ret) == <<"decoded", Strip0x(ret)>>

\* What getTransactionReceipt hands to its callback: (err, receipt).
ReceiptAnswers ==
    {[err |-> "null", receipt |-> Undefined],
     [err |-> "null", receipt |-> <<"receipt", Undefined>>],
     [err |-> "Error", receipt |-> Undefined]}
    \cup {[err |-> "null", receipt |-> <<"receipt", <<"str", r>> >>] : r \in RetValues}

\* A receipt taken for ready whenever there is one.
ReceiptReadyAny(receipt) == receipt # Undefined

\* line 343: receipt && receipt.ret !== undefined
ReceiptReady(receipt) == receipt # Undefined /\ receipt[2] # Undefined

TimeoutError == <<"Error", "getTransactionReceipt timeout...">>

NoTx ==
    [pc |-> "idle", entry |-> "none", hasCallback |-> FALSE,
     options |-> EffectiveOptions([given |-> FALSE, timeout |-> 0, interval |-> 0]),
     hash |-> "", startTime |-> 0, now |-> 0, timerLeft |-> 0,
     last |-> [err |-> "none", receipt |-> Undefined],
     returned |-> <<"pending">>, cbCalls |-> <<>>]

\* line 341: new Date().getTime() - startTime < options.timeout
InTime(now, startTime, timeout) == now - startTime < timeout

\* getResp asking for the receipt however late it is.
GetRespNeverTimesOut(t) == [t EXCEPT !.pc = "req_wait"]

\* lines 339-371, getResp: ask for the receipt, or report the timeout.
GetResp(t) ==
    IF InTime(t.now, t.startTime, t.options.timeout)
    THEN [t EXCEPT !.pc = "req_wait"]
    ELSE [t EXCEPT !.pc = "done",
                   !.cbCalls = IF t.hasCallback
                               THEN Append(@, <<TimeoutError, Undefined>>)
                               ELSE @]

\* lines 312-373, getResult(hash, options, callback): the arguments are taken
\* apart, the clock is read and getResp runs for the first time. The function
\* has no return statement of its own.
GetResult(t, hash, op, hasCallback) ==
    GetResp([t EXCEPT !.hash = hash,
                      !.options = EffectiveOptions(op),
                      !.hasCallback = hasCallback,
                      !.startTime = t.now])

GetResultReturn == Undefined

\* getResult called by the user.
GetResultCall ==
    /\ tx.pc \in {"idle", "done"}
    /\ \E hash \in Hashes, op \in QueryOptions, hasCallback \in BOOLEAN :
          tx' = [GetResult([NoTx EXCEPT !.entry = "getResult"], hash, op, hasCallback)
                    EXCEPT !.returned = GetResultReturn]
    /\ UNCHANGED kvars

\* lines 273-302, sendTransaction without a callback: invokeContract answers at
\* once with the hash, or throws, and what getResult returns is returned.
SendTransactionSync ==
    /\ tx.pc \in {"idle", "done"}
    /\ \E op \in QueryOptions :
          LET t == [NoTx EXCEPT !.entry = "sendTransaction",
                                !.options = EffectiveOptions(op)]
          IN  \/ \E hash \in Hashes :
                    tx' = [GetResult([t EXCEPT !.hash = hash], hash, t.options, FALSE)
                              EXCEPT !.returned = GetResultReturn]
              \/ tx' = [t EXCEPT !.pc = "done",
                                 !.returned = <<"throw", "invokeContract">>]
    /\ UNCHANGED kvars

\* lines 273-302, sendTransaction with a callback: invokeContract is asked and
\* the function returns nothing.
SendTransactionAsync ==
    /\ tx.pc \in {"idle", "done"}
    /\ \E op \in QueryOptions :
          tx' = [NoTx EXCEPT !.entry = "sendTransaction",
                             !.options = EffectiveOptions(op),
                             !.hasCallback = TRUE,
                             !.pc = "inv_wait",
                             !.returned = Undefined]
    /\ UNCHANGED kvars

\* lines 294-300: the answer of invokeContract
InvokeAnswer ==
    /\ tx.pc = "inv_wait"
    /\ \/ tx' = [tx EXCEPT !.pc = "done",
                           !.cbCalls = Append(@, <<<<"Error", "invokeContract">>, Undefined>>)]
       \/ \E hash \in Hashes :
             tx' = GetResult([tx EXCEPT !.hash = hash], hash, tx.options, TRUE)
    /\ UNCHANGED kvars

\* lines 342-359: the answer of getTransactionReceipt
ReceiptAnswer ==
    /\ tx.pc = "req_wait"
    /\ \E a \in ReceiptAnswers :
          IF ReceiptReady(a.receipt)
          THEN tx' = [tx EXCEPT !.pc = "done",
                                !.last = a,
                                !.cbCalls = IF tx.hasCallback
                                            THEN Append(@, <<<<"null">>, DecodeRet(a.receipt[2][2])>>)
                                            ELSE @]
          ELSE tx' = [tx EXCEPT !.pc = "timer",
                                !.last = a,
                                !.timerLeft = tx.options.interval]
    /\ UNCHANGED kvars

\* line 357: the timer set by setTimeout(getResp, options.interval) goes off
TimerFire ==
    /\ tx.pc = "timer"
    /\ tx.timerLeft = 0
    /\ tx' = GetResp(tx)
    /\ UNCHANGED kvars

\* Time passes while the program waits for an answer or for the timer.
Tick ==
    /\ tx.pc \in {"req_wait", "timer"}
    /\ \E d \in TickSteps :
          tx' = [tx EXCEPT !.now = Min(@ + d, tx.startTime + tx.options.timeout),
                           !.timerLeft = IF @ > d THEN @ - d ELSE 0]
    /\ UNCHANGED kvars

NextTx ==
    \/ GetResultCall
    \/ SendTransactionSync
    \/ SendTransactionAsync
    \/ InvokeAnswer
    \/ ReceiptAnswer
    \/ TimerFire
    \/ Tick

----------------------------------------------------------------------------
\* DecryptKey as a function of its arguments: what lines 63-106 return or throw.
DecryptOutcome(keyJsonStr, passwd) ==
    LET keyJson == JSONparse(keyJsonStr)
        cryptoJSON == keyJson.crypto
    IN  IF ~VersionAccepted(keyJson.version) THEN VersionError
        ELSE IF CipherRejected(cryptoJSON.cipher) THEN CipherError(cryptoJSON.cipher)
        ELSE IF KdfRejected(cryptoJSON.kdf) THEN KdfError
        ELSE
          LET salt == FromHex(cryptoJSON.kdfparams.salt)
              dpasswd == ScryptHashSync(passwd, cryptoJSON.kdfparams.n,
                                        cryptoJSON.kdfparams.r, cryptoJSON.kdfparams.p,
                                        cryptoJSON.kdfparams.dklen, salt)
              mac == cryptoJSON.mac
              iv == FromHex(cryptoJSON.cipherparams.iv)
              ciphertext == FromHex(cryptoJSON.ciphertext)
              calculatedMAC == CalculatedMAC(dpasswd, ciphertext)
              key == DecipherKey(dpasswd)
          IN  IF MacDiffers(calculatedMAC, mac) THEN MacMismatchError(calculatedMAC, mac)
              ELSE IF ByteLength(key) # 16 THEN <<"throw", "Invalid key length">>
              ELSE IF ByteLength(iv) # 16 THEN <<"throw", "Invalid IV length">>
              ELSE <<"return", ToHex(AesCtr(key, iv, ciphertext))>>

\* Whether DecryptKeyV3 reaches the comparison of line 96 and finds the macs
\* different.
FailsAtMac(keyJsonStr, passwd) ==
    LET keyJson == JSONparse(keyJsonStr)
        cryptoJSON == keyJson.crypto
    IN  /\ VersionAccepted(keyJson.version)
        /\ ~CipherRejected(cryptoJSON.cipher)
        /\ ~KdfRejected(cryptoJSON.kdf)
        /\ MacDiffers(CalculatedMAC(ScryptHashSync(passwd, cryptoJSON.kdfparams.n,
                                                   cryptoJSON.kdfparams.r,
                                                   cryptoJSON.kdfparams.p,
                                                   cryptoJSON.kdfparams.dklen,
                                                   FromHex(cryptoJSON.kdfparams.salt)),
                                    FromHex(cryptoJSON.ciphertext)),
                      cryptoJSON.mac)

----------------------------------------------------------------------------

Init ==
    /\ pc = "idle"
    /\ drawn = 0
    /\ gen = NoGen
    /\ keys = {}
    /\ issued = <<>>
    /\ dec = NoDec
    /\ out = <<"none">>
    /\ tx = NoTx

Next ==
    \/ GenKeyCall
    \/ GenKeyDraw
    \/ GenKeyRetry
    \/ GenKeyReturn
    \/ EncryptKey
    \/ DecryptKeyCall
    \/ DecryptKeyVersion
    \/ V3CheckCipher
    \/ V3CheckKdf
    \/ V3Derive
    \/ V3Mac
    \/ V3Compare
    \/ V3Decipher
    \/ V3Return

Spec == Init /\ [][Next]_vars

\* sendTransaction and getResult alone; every request is answered in the end,
\* timers go off and time passes.
SpecTx ==
    /\ Init
    /\ [][NextTx]_vars
    /\ WF_vars(InvokeAnswer)
    /\ WF_vars(ReceiptAnswer)
    /\ WF_vars(TimerFire)
    /\ WF_vars(Tick)

----------------------------------------------------------------------------
(* Properties.                                                             *)

\* DecryptKey has been called and has returned or thrown.
Finished == dec.called /\ pc = "idle"

\* The issued record the argument of DecryptKey was made of, and the record
\* DecryptKey was given.
Src == issued[dec.src]
Given == JSONparse(dec.json)

CorrectPasswd == dec.passwd = Src.passwd

Has(ev) == \E i \in DOMAIN dec.trace : dec.trace[i] = ev

\* The key material scrypt derives for an issued record under a passphrase.
DerivedFor(rec, passwd) ==
    ScryptHashSync(passwd, rec.crypto.kdfparams.n, rec.crypto.kdfparams.r,
                   rec.crypto.kdfparams.p, rec.crypto.kdfparams.dklen,
                   FromHex(rec.crypto.kdfparams.salt))

PrivateKeyHex == ToHex(Src.key.prvkey)

\* C1: DecryptKey on the JSON text of a record EncryptKey returned, with the
\* passphrase it was encrypted under, returns the hex of the private key,
\* whatever salt and iv were drawn.
C1_RoundTrip ==
    (Finished /\ dec.field = "none" /\ CorrectPasswd)
        => out = <<"return", PrivateKeyHex>>

C1_Witness ==
    /\ Finished /\ dec.field = "none" /\ CorrectPasswd
    /\ dec.json = JSONstringify(Src.rec)
    /\ out = <<"return", PrivateKeyHex>>

\* C2: in every DecryptKey run the cipher is applied, and a plaintext exists or
\* is returned, only after the mac recomputed from the MAC sub-key and the stored
\* ciphertext was compared with the stored mac and found equal; when they
\* differ the run ends with the authentication error and no plaintext.
C2_MacGate ==
    dec.called =>
        /\ (Has("aes") \/ dec.plaintext # Undefined \/ out[1] = "return") =>
              /\ \E i, j \in DOMAIN dec.trace :
                    i < j /\ dec.trace[i] = "compare" /\ dec.trace[j] = "aes"
              /\ \A i, j \in DOMAIN dec.trace :
                    (dec.trace[i] = "aes" /\ dec.trace[j] = "compare") => j < i
              /\ dec.calculatedMAC =
                    ToHex(Sha3(Concat(Slice(dec.dpasswd, 16, 32),
                                      FromHex(Given.crypto.ciphertext))))
              /\ dec.calculatedMAC = Given.crypto.mac
        /\ out[1] = "return" => out[2] = dec.plaintext
        /\ (Has("compare") /\ dec.calculatedMAC # Given.crypto.mac) =>
              /\ pc = "idle"
              /\ out = AuthError
              /\ dec.plaintext = Undefined
              /\ ~Has("aes")

C2_Witness ==
    /\ Finished
    /\ Has("compare")
    /\ dec.calculatedMAC # Given.crypto.mac
    /\ out = AuthError

\* C3: DecryptKey on an issued record with another passphrase, whose derived key
\* material differs, throws the authentication error and produces no plaintext.
C3_WrongPassphrase ==
    (/\ Finished /\ dec.field = "none" /\ dec.passwd # Src.passwd
     /\ DerivedFor(Src.rec, dec.passwd) # DerivedFor(Src.rec, Src.passwd))
        => /\ out = AuthError
           /\ dec.plaintext = Undefined

C3_Witness ==
    /\ Finished /\ dec.field = "none" /\ dec.passwd # Src.passwd
    /\ DerivedFor(Src.rec, dec.passwd) # DerivedFor(Src.rec, Src.passwd)
    /\ out = AuthError

\* C4 as claimed: any change of the ciphertext, salt or mac field makes
\* DecryptKey with the correct passphrase throw the authentication error.
C4_AnyChangeDetected ==
    (Finished /\ CorrectPasswd /\ dec.field \in {"ciphertext", "salt", "mac"})
        => out = AuthError

\* C4 as amended: with the correct passphrase, a ciphertext or salt that decodes
\* to other bytes, and a mac string changed in any way, make DecryptKey throw the
\* authentication error; a ciphertext or salt respelled in the other letter case
\* decodes to the same bytes and the private key is returned.
C4_ChangedBytesDetected ==
    (Finished /\ CorrectPasswd) =>
        /\ (dec.field = "mac" /\ Given.crypto.mac # Src.rec.crypto.mac)
              => out = AuthError
        /\ (/\ dec.field = "ciphertext"
            /\ FromHex(Given.crypto.ciphertext) # FromHex(Src.rec.crypto.ciphertext))
              => out = AuthError
        /\ (/\ dec.field = "salt"
            /\ FromHex(Given.crypto.kdfparams.salt) # FromHex(Src.rec.crypto.kdfparams.salt))
              => out = AuthError
        /\ (/\ dec.field = "ciphertext"
            /\ Given.crypto.ciphertext # Src.rec.crypto.ciphertext
            /\ FromHex(Given.crypto.ciphertext) = FromHex(Src.rec.crypto.ciphertext))
              => out = <<"return", PrivateKeyHex>>
        /\ (/\ dec.field = "salt"
            /\ Given.crypto.kdfparams.salt # Src.rec.crypto.kdfparams.salt
            /\ FromHex(Given.crypto.kdfparams.salt) = FromHex(Src.rec.crypto.kdfparams.salt))
              => out = <<"return", PrivateKeyHex>>

C4_Witness ==
    /\ Finished /\ CorrectPasswd
    /\ dec.field = "ciphertext"
    /\ FromHex(Given.crypto.ciphertext) # FromHex(Src.rec.crypto.ciphertext)
    /\ out = AuthError

\* C5 as claimed: a change of the iv field makes DecryptKey with the correct
\* passphrase throw the authentication error.
C5_IvChangeDetected ==
    (Finished /\ CorrectPasswd /\ dec.field = "iv") => out = AuthError

\* C5 as amended: the mac does not cover the iv. With the correct passphrase a
\* record whose iv was changed to another 16-byte value passes the mac
\* comparison and DecryptKey returns the stored ciphertext taken under the
\* keystream of the changed iv, which is the private key only when the changed
\* iv decodes to the bytes of the original one.
C5_IvChangeUndetected ==
    (Finished /\ CorrectPasswd /\ dec.field = "iv") =>
        /\ dec.calculatedMAC = Given.crypto.mac
        /\ out = <<"return",
                   ToHex(AesCtr(Slice(DerivedFor(Src.rec, Src.passwd), 0, 16),
                                FromHex(Given.crypto.cipherparams.iv),
                                FromHex(Src.rec.crypto.ciphertext)))>>
        /\ (out = <<"return", PrivateKeyHex>>)
              <=> (FromHex(Given.crypto.cipherparams.iv)
                     = FromHex(Src.rec.crypto.cipherparams.iv))

C5_Witness ==
    /\ Finished /\ CorrectPasswd /\ dec.field = "iv"
    /\ FromHex(Given.crypto.cipherparams.iv) # FromHex(Src.rec.crypto.cipherparams.iv)
    /\ out[1] = "return"
    /\ out # <<"return", PrivateKeyHex>>

NoPrimitiveInvoked == ~Has("scrypt") /\ ~Has("sha3") /\ ~Has("compare") /\ ~Has("aes")

\* C6 as claimed: a record whose version is absent or any value other than the
\* number 3 is refused with the version error before scrypt, the mac or the
\* cipher is invoked.
C6_OnlyNumber3 ==
    (dec.called /\ pc # "dk_version" /\ Given.version # <<"num", 3>>)
        => /\ pc = "idle"
           /\ out = VersionError
           /\ NoPrimitiveInvoked

\* C6 as amended: a record whose version is absent, falsy or not loosely equal
\* to "3" is refused with the version error before scrypt, the mac or the cipher
\* is invoked; the number 3 and the string "3" are both taken for version 3.
C6_VersionRejection ==
    /\ (dec.called /\ pc # "dk_version"
        /\ Given.version \notin {<<"num", 3>>, <<"str", "3">>})
          => /\ pc = "idle"
             /\ out = VersionError
             /\ NoPrimitiveInvoked
    /\ (dec.called /\ pc # "dk_version"
        /\ Given.version \in {<<"num", 3>>, <<"str", "3">>})
          => out # VersionError

C6_Witness ==
    /\ Finished
    /\ Given.version = <<"str", "03">>
    /\ out = VersionError

VersionIs3 == VersionAccepted(Given.version)

\* C7: a version-3 record whose cipher is not "aes-128-ctr" is refused with the
\* cipher error, and one whose kdf is not "scrypt" with the kdf error, in both
\* cases before scrypt, the mac or the cipher is invoked.
C7_CipherKdfRejection ==
    (dec.called /\ pc \notin {"dk_version", "v3_cipher"} /\ VersionIs3) =>
        /\ Given.crypto.cipher # <<"str", "aes-128-ctr">>
              => /\ pc = "idle"
                 /\ out = CipherError(Given.crypto.cipher)
                 /\ NoPrimitiveInvoked
        /\ (/\ Given.crypto.cipher = <<"str", "aes-128-ctr">>
            /\ Given.crypto.kdf # <<"str", "scrypt">>
            /\ pc # "v3_kdf")
              => /\ pc = "idle"
                 /\ out = KdfError
                 /\ NoPrimitiveInvoked

C7_Witness ==
    /\ Finished /\ VersionIs3
    /\ Given.crypto.kdf = <<"str", "pbkdf2">>
    /\ out = KdfError
    /\ NoPrimitiveInvoked

\* C8: two EncryptKey calls with the same key pair and passphrase return records
\* that differ in salt, iv, ciphertext and mac, each call's salt and iv being
\* draws of its own from the entropy source; every issued record decrypts to
\* the private key under its passphrase.
C8_Freshness ==
    /\ \A i, j \in DOMAIN issued :
          (i < j /\ issued[i].key = issued[j].key /\ issued[i].passwd = issued[j].passwd)
            => LET a == issued[i].rec.crypto
                   b == issued[j].rec.crypto
               IN  /\ issued[i].rec # issued[j].rec
                   /\ a.kdfparams.salt # b.kdfparams.salt
                   /\ a.cipherparams.iv # b.cipherparams.iv
                   /\ a.ciphertext # b.ciphertext
                   /\ a.mac # b.mac
    /\ \A i \in DOMAIN issued :
          LET c == issued[i].rec.crypto
              salt == FromHex(c.kdfparams.salt)
              iv == FromHex(c.cipherparams.iv)
          IN  /\ salt[1] = "rnd" /\ iv[1] = "rnd"
              /\ salt[4] \in 1..drawn /\ iv[4] \in 1..drawn
              /\ salt[4] # iv[4]
    /\ (Finished /\ dec.field = "none" /\ CorrectPasswd /\ Len(issued) > 1)
          => out = <<"return", PrivateKeyHex>>

C8_Witness ==
    /\ \E i, j \in DOMAIN issued :
          /\ i < j
          /\ issued[i].key = issued[j].key
          /\ issued[i].passwd = issued[j].passwd
          /\ issued[i].rec # issued[j].rec
    /\ Finished /\ dec.field = "none" /\ CorrectPasswd /\ dec.src = 2
    /\ out = <<"return", PrivateKeyHex>>

\* C9: every record EncryptKey returns has version 3, cipher "aes-128-ctr", kdf
\* "scrypt", dklen 32, n 2^18, r 8, p 1, a 32-byte salt and a 16-byte iv in
\* hex, the key pair's address in hex, a ciphertext that is the private key
\* under derived bytes [0,16) and the iv, and a mac that is the hash of derived
\* bytes [16,32) followed by the ciphertext.
C9_RecordShape ==
    \A i \in DOMAIN issued :
        LET rec == issued[i].rec
            c == rec.crypto
            derived == <<"scrypt", issued[i].passwd, FromHex(c.kdfparams.salt),
                         2^18, 8, 1, 0, 32>>
            enckey == <<"scrypt", issued[i].passwd, FromHex(c.kdfparams.salt),
                        2^18, 8, 1, 0, 16>>
            mackey == <<"scrypt", issued[i].passwd, FromHex(c.kdfparams.salt),
                        2^18, 8, 1, 16, 32>>
        IN  /\ rec.version = <<"num", 3>>
            /\ c.cipher = <<"str", "aes-128-ctr">>
            /\ c.kdf = <<"str", "scrypt">>
            /\ c.kdfparams.dklen = 32
            /\ c.kdfparams.n = 2^18
            /\ c.kdfparams.r = 8
            /\ c.kdfparams.p = 1
            /\ c.kdfparams.salt[3] = "lower"
            /\ ByteLength(FromHex(c.kdfparams.salt)) = 32
            /\ c.cipherparams.iv[3] = "lower"
            /\ ByteLength(FromHex(c.cipherparams.iv)) = 16
            /\ rec.address = <<"hex", issued[i].key.addr, "lower">>
            /\ c.ciphertext =
                  <<"hex", <<"ctr", enckey, FromHex(c.cipherparams.iv),
                             issued[i].key.prvkey>>, "lower">>
            /\ c.mac = <<"hex", <<"sha3", <<"cat", mackey, FromHex(c.ciphertext)>> >>,
                         "lower">>
            /\ ByteLength(derived) = 32

C9_Witness ==
    /\ Len(issued) > 0
    /\ out = <<"record", issued[Len(issued)].rec>>

\* C10: every key pair GenKey returns has a private key the validity predicate
\* accepts, whatever the entropy source yielded before it, and a public key
\* and an address derived from that private key.
C10_KeyValidity ==
    /\ \A k \in keys :
          /\ isValidPrivate(k.prvkey)
          /\ k.pubkey = privateToPublic(k.prvkey)
          /\ k.addr = pubToAddress(privateToPublic(k.prvkey))
    /\ out[1] = "keypair" => (out[2] \in keys /\ isValidPrivate(out[2].prvkey))

\* GenKey returned after at least one candidate was refused.
C10_Witness ==
    /\ out[1] = "keypair"
    /\ out[2].prvkey[4] > 1
    /\ isValidPrivate(out[2].prvkey)
    /\ keys = {out[2]}

\* C11: GenKey caps its redraws: once more than RedrawCap candidates have been
\* refused, the call has ended by failing with EntropyExhausted.
C11_RedrawsCapped ==
    gen.redraws > RedrawCap
        => (pc = "idle" /\ out = <<"throw", "EntropyExhausted">>)

\* The DecryptKey calls with the right passphrase on an issued record whose
\* ciphertext, salt or mac was altered.
TamperedRuns ==
    UNION {{[json |-> JSONstringify(v.rec), passwd |-> issued[i].passwd] :
              v \in {w \in Variants(issued[i].rec) :
                        w.field \in {"ciphertext", "salt", "mac"}}} :
           i \in DOMAIN issued}

\* C12: a DecryptKey run that fails at the mac comparison because the
\* passphrase is wrong reports the very error that any run reports that fails
\* there because the ciphertext, salt or mac was altered; each run's outcome is
\* what DecryptKey computes from its arguments.
C12_SameError ==
    Finished =>
        /\ out = DecryptOutcome(dec.json, dec.passwd)
        /\ (dec.field = "none" /\ ~CorrectPasswd /\ FailsAtMac(dec.json, dec.passwd)) =>
              \A t \in TamperedRuns :
                 FailsAtMac(t.json, t.passwd)
                    => DecryptOutcome(t.json, t.passwd) = out

C12_Witness ==
    /\ Finished /\ dec.field = "none" /\ ~CorrectPasswd
    /\ FailsAtMac(dec.json, dec.passwd)
    /\ out[1] = "throw"
    /\ \E t \in TamperedRuns :
          /\ FailsAtMac(t.json, t.passwd)
          /\ DecryptOutcome(t.json, t.passwd) = out

\* C15: every record DecryptKey accepts had its mac verified with a 16-byte MAC
\* sub-key, bytes [16,32) of the derived key, and is accepted under no
\* passphrase whose derived key material differs.
C15_AcceptanceNeedsPassphrase ==
    (Finished /\ out[1] = "return") =>
        /\ ByteLength(Slice(dec.dpasswd, 16, 32)) = 16
        /\ \A p \in Passwords :
              DerivedFor(Given, p) # dec.dpasswd
                 => DecryptOutcome(dec.json, p)[1] # "return"

----------------------------------------------------------------------------
(* sendTransaction and getResult                                           *)

\* The receipt carries a ret.
HasRet(receipt) == receipt # Undefined /\ receipt[2] # Undefined

\* The callback has been called once, with these arguments.
CalledOnceWith(err, result) == tx.cbCalls = << <<err, result>> >>

\* C13: sendTransaction called without a callback returns the hash that
\* invokeContract returned; called with a callback, the callback gets the error
\* of invokeContract, or else the outcome of polling: the decoded ret or the
\* timeout error.
C13_SendTransaction ==
    tx.entry = "sendTransaction" =>
        /\ (~tx.hasCallback /\ tx.returned[1] \notin {"pending", "throw"})
              => tx.returned = <<"str", tx.hash>>
        /\ (tx.hasCallback /\ tx.pc = "done") =>
              \/ tx.hash = "" /\ CalledOnceWith(<<"Error", "invokeContract">>, Undefined)
              \/ /\ tx.hash # ""
                 /\ IF HasRet(tx.last.receipt)
                    THEN CalledOnceWith(<<"null">>, DecodeRet(tx.last.receipt[2][2]))
                    ELSE CalledOnceWith(TimeoutError, Undefined)

\* getResult was called with a hash and a callback.
GetResultWithCallback == tx.entry = "getResult" /\ tx.hasCallback

\* The callback is called at most once, and once it has been called nothing is
\* outstanding: no request and no timer. It gets (null, decoded ret) for the
\* first receipt that has a ret, and the timeout error otherwise, when the time
\* is up. While polling goes on no receipt with a ret has been seen.
C14_State ==
    GetResultWithCallback =>
        /\ Len(tx.cbCalls) <= 1
        /\ tx.cbCalls # <<>> <=> tx.pc = "done"
        /\ tx.pc = "done" =>
              IF HasRet(tx.last.receipt)
              THEN CalledOnceWith(<<"null">>, DecodeRet(tx.last.receipt[2][2]))
              ELSE /\ CalledOnceWith(TimeoutError, Undefined)
                   /\ tx.now - tx.startTime >= tx.options.timeout
        /\ tx.pc \in {"req_wait", "timer"} => ~HasRet(tx.last.receipt)

\* A request is made only before the timeout has elapsed; an answer without a
\* ret only sets the timer to options.interval, and the next poll starts when
\* the timer has run down.
C14_Step ==
    GetResultWithCallback' =>
        /\ (tx.pc # "req_wait" /\ tx'.pc = "req_wait")
              => tx'.now - tx'.startTime < tx'.options.timeout
        /\ (tx.pc = "req_wait" /\ tx'.pc # "req_wait") =>
              \/ tx'.pc = "done" /\ HasRet(tx'.last.receipt)
              \/ /\ tx'.pc = "timer"
                 /\ ~HasRet(tx'.last.receipt)
                 /\ tx'.timerLeft = tx.options.interval
                 /\ tx'.cbCalls = <<>>
        /\ (tx.pc = "timer" /\ tx'.pc # "timer") => tx.timerLeft = 0

\* C14: receipt polling. getResult called with a hash and a callback calls the
\* callback in the end, exactly once: with (null, decoded ret) for the first
\* receipt with a ret, requested before the timeout, or with the timeout error
\* once a poll starts after options.timeout; a receipt that is missing, has no
\* ret or comes with an error only schedules the next poll after
\* options.interval, and nothing is scheduled after the callback was called.
C14_Polling ==
    /\ []C14_State
    /\ [][C14_Step]_vars
    /\ (GetResultWithCallback /\ tx.pc # "done")
          ~> (GetResultWithCallback /\ tx.pc = "done" /\ Len(tx.cbCalls) = 1)

\* Polling went on until the time was up and the callback got the timeout error.
C14_Witness ==
    /\ GetResultWithCallback
    /\ tx.pc = "done"
    /\ tx.last.err # "none"
    /\ CalledOnceWith(TimeoutError, Undefined)

====
